---- MODULE Spec2Model ----
(***************************************************************************)
(* A model of cs2_map_parser: the block scanner of ModelFile, the hull and *)
(* mesh extraction of PhysicsFile, its two writers (to_triangle_file,      *)
(* to_opt_file) and the two readers of tri_parser.py.  Buffers are         *)
(* sequences of bytes (0..255); Python's 0-based offsets are kept in the   *)
(* state and shifted by one where a TLA+ sequence is indexed.              *)
(***************************************************************************)
EXTENDS Integers, Sequences, FiniteSets, TLC

VARIABLES
    mode,           \* which entry point this behaviour runs
    \* ---- tri_parser.py: read_opt_file / read_triangle_file
    src_chunks,     \* the chunks (lists of Triangle) the stream was laid out from
    stream,         \* the bytes of the BytesIO
    spos,           \* the stream's read position (0-based)
    rpc,            \* the reader's position in its code
    chunk_count,    \* read_opt_file: chunk_count
    index,          \* read_opt_file: index of the outer loop
    tleft,          \* read_opt_file: iterations left of range(triangle_count)
    lists,          \* the heap of Python list objects: object id -> its elements
    triangles,      \* read_opt_file: list of references (object ids) into lists;
                    \* read_triangle_file: the list of Triangle itself
    buffer,         \* read_triangle_file: the 36-byte bytearray readinto fills
    rerr,           \* the exception the reader raised, or "none"
    \* ---- ModelFile: self.reader and get_physics_file
    blocks,         \* the block table the container was laid out from
    reader_buf,     \* the bytes of self.reader
    reader_pos,     \* self.reader.pos()
    spc,            \* get_physics_file's position in its code
    block_count,    \* block_count
    blk_i,          \* iterations of the loop over range(block_count) begun
    phys_buffer,    \* phys_buffer, or <<"none">> before it is read
    serr,           \* the exception get_physics_file raised, or "none"
    calls,          \* the calls of get_physics_file begun on this ModelFile
    first_call,     \* how the first call ended: [err, data], err "none" for a return
    entry_start,    \* self.reader.pos() when the latest entry's type was read
    entry_offset,   \* offset, as the latest iteration of the loop computed it
    \* ---- PhysicsFile.get_hulls / get_meshes: the extraction of one part
    hull,           \* hull: m_VertexPositions, m_Faces, m_Edges
    mesh,           \* mesh: m_Triangles, m_Vertices
    gpc,            \* the generator's position in its code
    face_i,         \* get_hulls: faces already taken by "for start_edge in faces"
    start_edge,     \* get_hulls: start_edge
    edge,           \* get_hulls: edge
    iters,          \* get_hulls: iterations of the while loop for this face
    tri_i,          \* get_meshes: triangle, the counter of the range loop
    saved_triangles,\* saved_triangles
    gerr,           \* the exception the extraction raised, or "none"
    \* ---- PhysicsFile: to_triangle_file and to_opt_file over self.phys_data
    phys_data,      \* self.phys_data: m_hulls and m_meshes of m_parts[0].m_rnShape
    call,           \* the method running: "tri" (to_triangle_file), then "opt"
    epc,            \* the method's position in its code
    gen,            \* the generator of the chain that is running
    gen_index,      \* that generator's index
    data,           \* data
    chunk_counter,  \* to_opt_file: chunk_counter
    yielded,        \* the parts that yielded in this call: <<kind, index, bytes>>
    count_at,       \* to_opt_file: the offsets in data of the 8-byte counts
    tri_out,        \* what to_triangle_file returned
    opt_out,        \* what to_opt_file returned
    eerr,           \* the exception the method raised, or "none"
    \* ---- PhysicsFile.get_meshes: the argument of range() alone (line 97)
    tri_len,        \* len(triangles)
    cpc,            \* the position of the computation: "call", then "done"
    n_range         \* (len(triangles) * 0x55555556) >> 34

rdVars == <<src_chunks, stream, spos, rpc, chunk_count, index, tleft, lists, triangles, buffer, rerr>>
scVars == <<blocks, reader_buf, reader_pos, spc, block_count, blk_i, phys_buffer, serr,
            calls, first_call, entry_start, entry_offset>>
geVars == <<hull, mesh, gpc, face_i, start_edge, edge, iters, tri_i, saved_triangles, gerr>>
exVars == <<phys_data, call, epc, gen, gen_index, data, chunk_counter, yielded, count_at,
            tri_out, opt_out, eerr>>
ctVars == <<tri_len, cpc, n_range>>
vars == <<mode, rdVars, scVars, geVars, exVars, ctVars>>
notRd == <<scVars, geVars, exVars, ctVars>>
notSc == <<rdVars, geVars, exVars, ctVars>>
notGe == <<rdVars, scVars, exVars, ctVars>>
notEx == <<rdVars, scVars, geVars, ctVars>>
notCt == <<rdVars, scVars, geVars, exVars>>

-----------------------------------------------------------------------------
(* Bounds of the model *)
MaxChunks == 2      \* chunks in a chunked stream
MaxTris == 2        \* triangles in one chunk
MaxFlat == 3        \* triangles in a flat stream
MaxBlocks == 3      \* entries of a container's block table
MaxEdges == 3       \* half-edges of a generated hull
WalkSlack == 2      \* iterations of a face's walk the model follows past MaxEdges
MaxMeshTris == 2    \* index triples of a generated mesh
MaxHullParts == 2   \* entries of m_hulls
MaxMeshParts == 2   \* entries of m_meshes
MaxCalls == 2       \* calls of get_physics_file on one ModelFile
LenSpan == 24       \* consecutive buffer lengths taken at each anchor of the count

-----------------------------------------------------------------------------
(* Bytes and integers *)

Min(a, b) == IF a < b THEN a ELSE b

RECURSIVE ToBytesLE(_, _)
\* int.to_bytes(w, "little")
ToBytesLE(n, w) == IF w = 0 THEN <<>> ELSE <<n % 256>> \o ToBytesLE(n \div 256, w - 1)

RECURSIVE FromBytesLE(_)
\* int.from_bytes(b, "little"), struct "<Q" / "<I"
FromBytesLE(b) == IF b = <<>> THEN 0 ELSE Head(b) + 256 * FromBytesLE(Tail(b))

\* Python's b[lo:hi] on a bytes object, 0 <= lo: clipped to the length, never an error
Slice(b, lo, hi) == SubSeq(b, lo + 1, Min(hi, Len(b)))

RECURSIVE Concat(_)
Concat(ss) == IF ss = <<>> THEN <<>> ELSE Head(ss) \o Concat(Tail(ss))

\* all sequences over S of length 0..n
SeqsUpTo(S, n) == UNION {[1..k -> S] : k \in 0..n}

-----------------------------------------------------------------------------
(* float32, Vec3, Triangle.  A float32 is <<sign, exponent, mantissa>>.    *)

\* struct.unpack("<f", b): the IEEE-754 fields of four little-endian bytes
UnpackF(b) == <<b[4] \div 128,
                (b[4] % 128) * 2 + b[3] \div 128,
                (b[3] % 128) * 65536 + b[2] * 256 + b[1]>>

\* struct.pack("<f", f)
PackF(f) == <<f[3] % 256,
              (f[3] \div 256) % 256,
              (f[3] \div 65536) + 128 * (f[2] % 2),
              (f[2] \div 2) + 128 * f[1]>>

\* Vec3(*unpack("<fff", b)) of a 12-byte slice
UnpackVec3(b) == <<UnpackF(SubSeq(b, 1, 4)), UnpackF(SubSeq(b, 5, 8)), UnpackF(SubSeq(b, 9, 12))>>

PackVec3(v) == PackF(v[1]) \o PackF(v[2]) \o PackF(v[3])

\* The Triangle that both readers build of a 36-byte buffer, a mutant first:
\* vertex b taken from the first slice again
DecodeTriangleSameSlice(buf) ==
    <<UnpackVec3(SubSeq(buf, 1, 12)),
      UnpackVec3(SubSeq(buf, 1, 12)),
      UnpackVec3(SubSeq(buf, 25, 36))>>

DecodeTriangle(buf) ==
    <<UnpackVec3(SubSeq(buf, 1, 12)),
      UnpackVec3(SubSeq(buf, 13, 24)),
      UnpackVec3(SubSeq(buf, 25, 36))>>

\* the 36-byte record of a Triangle: three little-endian float32 triples
EncodeTriangle(t) == PackVec3(t[1]) \o PackVec3(t[2]) \o PackVec3(t[3])

EncodeTriangles(ts) == Concat([i \in 1..Len(ts) |-> EncodeTriangle(ts[i])])

\* the floats 0.0, 1.0, -2.5 and 3.0e38
FZero == <<0, 0, 0>>
FOne == <<0, 127, 0>>
FNeg == <<1, 128, 2097152>>
FBig == <<0, 253, 6422528>>

VecA == <<FZero, FZero, FZero>>
VecB == <<FOne, FZero, FNeg>>
VecC == <<FZero, FOne, FBig>>
VecD == <<FNeg, FBig, FOne>>

TriPool == {<<VecA, VecB, VecC>>, <<VecD, VecC, VecB>>}

-----------------------------------------------------------------------------
(* PhysicsFile.to_triangle_file and PhysicsFile.to_opt_file, as functions  *)
(* of the byte strings the generators yield.                               *)

\* to_opt_file, one iteration of the loop over the yielded byte strings
OptAppend(d, tris) == d \o ToBytesLE(Len(tris) \div 36, 8) \o tris

\* to_opt_file: d[:8] = n.to_bytes(8, "little")
OptSetCount(d, n) == ToBytesLE(n, 8) \o SubSeq(d, 9, Len(d))

RECURSIVE OptLoop(_, _)
OptLoop(d, ys) ==
    IF ys = <<>> THEN d ELSE OptLoop(OptAppend(d, Head(ys)), Tail(ys))

\* the bytes to_opt_file returns when the generators yield the byte strings ys
ToOptFile(ys) == OptSetCount(OptLoop(ToBytesLE(0, 8), ys), Len(ys))

\* the bytes to_triangle_file returns when the generators yield the byte strings ys
ToTriangleFile(ys) == Concat(ys)

-----------------------------------------------------------------------------
(* The stream of the readers *)

\* stream.read(n): the bytes read; the position moves by their number
StreamRead(n) == Slice(stream, spos, spos + n)

\* the reader's variables in behaviours that run no reader
RdIdle ==
    /\ src_chunks = <<>> /\ stream = <<>> /\ spos = 0 /\ rpc = "idle"
    /\ chunk_count = 0 /\ index = 0 /\ tleft = 0 /\ lists = <<>>
    /\ triangles = <<>> /\ buffer = <<>> /\ rerr = "none"

\* the scanner's variables in behaviours that run no scanner
ScIdle ==
    /\ blocks = <<>> /\ reader_buf = <<>> /\ reader_pos = 0 /\ spc = "idle"
    /\ block_count = 0 /\ blk_i = 0 /\ phys_buffer = <<"none">> /\ serr = "none"
    /\ calls = 0 /\ first_call = [err |-> "none", data |-> <<>>]
    /\ entry_start = 0 /\ entry_offset = 0

\* the extraction's variables in behaviours that extract no single part
GeIdle ==
    /\ hull = <<>> /\ mesh = <<>> /\ gpc = "idle" /\ face_i = 0 /\ start_edge = 0
    /\ edge = 0 /\ iters = 0 /\ tri_i = 0 /\ saved_triangles = <<>> /\ gerr = "none"

\* the writers' variables in behaviours that run no writer
ExIdle ==
    /\ phys_data = <<>> /\ call = "idle" /\ epc = "idle" /\ gen = "idle" /\ gen_index = 0
    /\ data = <<>> /\ chunk_counter = 0 /\ yielded = <<>> /\ count_at = {}
    /\ tri_out = <<"none">> /\ opt_out = <<"none">> /\ eerr = "none"

\* the variables of the count in behaviours that compute no count alone
CtIdle == tri_len = 0 /\ cpc = "idle" /\ n_range = 0

-----------------------------------------------------------------------------
(* read_opt_file *)

InitOpt ==
    /\ mode = "read_opt"
    /\ src_chunks \in SeqsUpTo(SeqsUpTo(TriPool, MaxTris), MaxChunks)
    /\ stream = ToOptFile([i \in 1..Len(src_chunks) |-> EncodeTriangles(src_chunks[i])])
    /\ spos = 0
    /\ rpc = "header"
    /\ chunk_count = 0
    /\ index = 0
    /\ tleft = 0
    /\ lists = <<>>
    /\ triangles = <<>>
    /\ buffer = <<>>
    /\ rerr = "none"
    /\ ScIdle /\ GeIdle /\ ExIdle /\ CtIdle

\* lines 48-52: the chunk count, and triangles = [[]] * chunk_count, which is
\* chunk_count references to ONE list object
OptHeader ==
    /\ mode = "read_opt" /\ rpc = "header"
    /\ LET b == StreamRead(8) IN
       /\ spos' = spos + Len(b)
       /\ IF Len(b) < 8
          THEN /\ rpc' = "error" /\ rerr' = "struct.error"
               /\ UNCHANGED <<chunk_count, lists, triangles>>
          ELSE IF FromBytesLE(b) = 0
          THEN /\ rpc' = "error" /\ rerr' = "RuntimeError"
               /\ chunk_count' = 0
               /\ UNCHANGED <<lists, triangles>>
          ELSE /\ chunk_count' = FromBytesLE(b)
               /\ lists' = <<(<<>>)>>
               /\ triangles' = [i \in 1..FromBytesLE(b) |-> 1]
               /\ rpc' = "chunk" /\ rerr' = rerr
    /\ UNCHANGED <<mode, notRd, src_chunks, stream, index, tleft, buffer>>

\* lines 53-56: the next chunk's triangle count
OptChunk ==
    /\ mode = "read_opt" /\ rpc = "chunk" /\ index < chunk_count
    /\ LET b == StreamRead(8) IN
       /\ spos' = spos + Len(b)
       /\ IF Len(b) < 8
          THEN /\ rpc' = "error" /\ rerr' = "struct.error" /\ tleft' = tleft
          ELSE IF FromBytesLE(b) = 0
          THEN /\ rpc' = "error" /\ rerr' = "RuntimeError" /\ tleft' = tleft
          ELSE /\ tleft' = FromBytesLE(b) /\ rpc' = "record" /\ rerr' = rerr
    /\ UNCHANGED <<mode, notRd, src_chunks, stream, chunk_count, index, lists, triangles, buffer>>

\* lines 58-67: one record, appended to the list triangles[index] refers to
OptRecord ==
    /\ mode = "read_opt" /\ rpc = "record"
    /\ LET buf == StreamRead(36) IN
       /\ spos' = spos + Len(buf)
       /\ IF Len(buf) < 36
          THEN /\ rpc' = "error" /\ rerr' = "struct.error"
               /\ UNCHANGED <<lists, tleft, index>>
          ELSE /\ lists' = [lists EXCEPT ![triangles[index + 1]] =
                                Append(@, DecodeTriangle(buf))]
               /\ tleft' = tleft - 1
               /\ index' = IF tleft = 1 THEN index + 1 ELSE index
               /\ rpc' = IF tleft = 1 THEN "chunk" ELSE "record"
               /\ rerr' = rerr
    /\ UNCHANGED <<mode, notRd, src_chunks, stream, chunk_count, triangles, buffer>>

\* line 68: return triangles
OptReturn ==
    /\ mode = "read_opt" /\ rpc = "chunk" /\ index = chunk_count
    /\ rpc' = "done"
    /\ UNCHANGED <<mode, notRd, src_chunks, stream, spos, chunk_count, index, tleft, lists, triangles, buffer, rerr>>

\* what the caller sees of the returned list of lists
OptResult == [i \in 1..Len(triangles) |-> lists[triangles[i]]]

NextOpt == OptHeader \/ OptChunk \/ OptRecord \/ OptReturn

SpecOpt == InitOpt /\ [][NextOpt]_vars

-----------------------------------------------------------------------------
(* read_triangle_file *)

\* the lengths of the partial record that may follow the whole records
Trailing == {0, 1, 35}

InitFlat ==
    /\ mode = "read_tri"
    /\ \E ts \in SeqsUpTo(TriPool, MaxFlat), r \in Trailing :
         /\ src_chunks = <<ts>>
         /\ stream = ToTriangleFile(<<EncodeTriangles(ts)>>)
                        \o SubSeq(EncodeTriangle(<<VecB, VecC, VecD>>), 1, r)
    /\ spos = 0
    /\ rpc = "loop"
    /\ chunk_count = 0
    /\ index = 0
    /\ tleft = 0
    /\ lists = <<>>
    /\ triangles = <<>>
    /\ buffer = [i \in 1..36 |-> 0]
    /\ rerr = "none"
    /\ ScIdle /\ GeIdle /\ ExIdle /\ CtIdle

\* stream.readinto(buffer): the number of bytes read
ReadInto == Min(36, Len(stream) - spos)

\* the buffer after readinto: the bytes read over the start of the old content
BufferAfterRead == StreamRead(36) \o SubSeq(buffer, ReadInto + 1, 36)

\* lines 76-86: a whole record is read and appended
FlatRecord ==
    /\ mode = "read_tri" /\ rpc = "loop"
    /\ ReadInto = 36
    /\ buffer' = BufferAfterRead
    /\ spos' = spos + ReadInto
    /\ triangles' = Append(triangles, DecodeTriangle(BufferAfterRead))
    /\ UNCHANGED <<mode, notRd, src_chunks, stream, rpc, chunk_count, index, tleft, lists, rerr>>

\* a reader that ends the loop at a partial record and returns what it has
FlatTruncatedReturns ==
    /\ mode = "read_tri" /\ rpc = "loop"
    /\ 0 < ReadInto /\ ReadInto < 36
    /\ buffer' = BufferAfterRead
    /\ spos' = spos + ReadInto
    /\ rpc' = "done" /\ rerr' = rerr
    /\ UNCHANGED <<mode, notRd, src_chunks, stream, chunk_count, index, tleft, lists, triangles>>

\* lines 77-78: a partial record raises
FlatTruncated ==
    /\ mode = "read_tri" /\ rpc = "loop"
    /\ 0 < ReadInto /\ ReadInto < 36
    /\ buffer' = BufferAfterRead
    /\ spos' = spos + ReadInto
    /\ rpc' = "error" /\ rerr' = "RuntimeError"
    /\ UNCHANGED <<mode, notRd, src_chunks, stream, chunk_count, index, tleft, lists, triangles>>

\* lines 76, 88: readinto returns 0, the loop ends, return triangles
FlatReturn ==
    /\ mode = "read_tri" /\ rpc = "loop"
    /\ ReadInto = 0
    /\ rpc' = "done"
    /\ UNCHANGED <<mode, notRd, src_chunks, stream, spos, chunk_count, index, tleft, lists, triangles, buffer, rerr>>

NextFlat == FlatRecord \/ FlatTruncated \/ FlatReturn

SpecFlat == InitFlat /\ [][NextFlat]_vars

-----------------------------------------------------------------------------
(* Claims about the codec *)

\* C1: chunked round trip: read_opt_file applied to the bytes to_opt_file lays
\* out for a sequence of chunks ends by returning as many lists as there
\* were chunks, list i holding the triangles of chunk i in order (chunks
\* with zero triangles included).
C1_ChunkedRoundTrip ==
    (mode = "read_opt" /\ rpc \in {"done", "error"})
        => (rpc = "done" /\ OptResult = src_chunks)

\* C2: flat round trip: read_triangle_file applied to the concatenated
\* 36-byte records of a non-empty triangle sequence ends by returning
\* exactly that sequence.
C2_FlatRoundTrip ==
    (mode = "read_tri" /\ Len(src_chunks[1]) > 0
        /\ Len(stream) = 36 * Len(src_chunks[1]) /\ rpc \in {"done", "error"})
        => (rpc = "done" /\ triangles = src_chunks[1])

C2_Witness ==
    /\ mode = "read_tri" /\ rpc = "done"
    /\ Len(stream) = 72
    /\ Len(triangles) = 2 /\ triangles[1] # triangles[2]
    /\ triangles = src_chunks[1]

\* C11: read_triangle_file consumes its input in 36-byte records until the
\* input is exhausted: on an input of 36*n + r bytes with 0 < r < 36 it
\* ends in an error and returns no list; on an input of 36*n bytes it
\* returns exactly n triangles.
C11_FlatTruncation ==
    (mode = "read_tri" /\ rpc \in {"done", "error"})
        => /\ spos = Len(stream)
           /\ (Len(stream) % 36 # 0) => (rpc = "error" /\ rerr = "RuntimeError")
           /\ (Len(stream) % 36 = 0) =>
                 (rpc = "done" /\ rerr = "none"
                    /\ Len(triangles) = Len(stream) \div 36)

C11_Witness ==
    /\ mode = "read_tri" /\ rpc = "error" /\ rerr = "RuntimeError"
    /\ Len(stream) = 36 * 2 + 35
    /\ Len(triangles) = 2 /\ spos = Len(stream)

\* C19: for every well-formed chunked input of C >= 2 chunks, each with
\* t_i >= 1 triangles, read_opt_file returns C lists and list i holds
\* exactly t_i triangles: the records of chunk i in order, and no triangle
\* of another chunk.
C19_ChunkAware ==
    (mode = "read_opt" /\ rpc \in {"done", "error"}
        /\ Len(src_chunks) >= 2
        /\ \A i \in 1..Len(src_chunks) : Len(src_chunks[i]) >= 1)
        => /\ rpc = "done"
           /\ Len(OptResult) = Len(src_chunks)
           /\ \A i \in 1..Len(src_chunks) :
                 /\ Len(OptResult[i]) = Len(src_chunks[i])
                 /\ OptResult[i] = src_chunks[i]

-----------------------------------------------------------------------------
(* ModelFile.get_physics_file: the block scanner *)

\* BlockType.PHYS and BlockType.DATA: four ASCII codes packed little-endian
PHYS == 80 + 72 * 256 + 89 * 65536 + 83 * 16777216
DATA == 68 + 65 * 256 + 84 * 65536 + 65 * 16777216

\* BinaryReader.read_uint32 at position p of the reader's bytes
ReadUInt32(p) == FromBytesLE(Slice(reader_buf, p, p + 4))

\* The containers of the model.  The header holds block_offset = bo, counted
\* from its own field at 0x08, so the table starts at 8 + bo; entry i is 12
\* bytes; a data area of DataLen bytes follows the table.  A block is
\* [tag, off, size] with off the absolute offset of its data, stored in the
\* entry relative to the position of the offset field itself.
DataLen == 4
TableStart(bo) == 8 + bo
EntryStart(bo, i) == TableStart(bo) + 12 * i
DataStart(bo, n) == TableStart(bo) + 12 * n

EntryBytes(bo, i, blk) ==
    ToBytesLE(blk.tag, 4) \o ToBytesLE(blk.off - (EntryStart(bo, i) + 4), 4) \o ToBytesLE(blk.size, 4)

MakeContainer(bo, blks) ==
    LET n == Len(blks)
        total == DataStart(bo, n) + DataLen
    IN ToBytesLE(total, 4) \o ToBytesLE(12, 2) \o ToBytesLE(1, 2)
         \o ToBytesLE(bo, 4) \o ToBytesLE(n, 4)
         \o [j \in 1..(bo - 8) |-> 0]
         \o Concat([i \in 1..n |-> EntryBytes(bo, i - 1, blks[i])])
         \o [j \in 1..DataLen |-> 200 + j]

BlockOffsets == {8, 11}

BlockSets(bo, n) ==
    [1..n -> [tag : {PHYS, DATA}, off : {DataStart(bo, n), DataStart(bo, n) + 2}, size : {0, 2}]]

InitScan ==
    /\ mode = "scan"
    /\ \E bo \in BlockOffsets, n \in 0..MaxBlocks :
         \E blks \in BlockSets(bo, n) :
            /\ blocks = blks
            /\ reader_buf = MakeContainer(bo, blks)
    /\ reader_pos = 0
    /\ spc = "header"
    /\ block_count = 0
    /\ blk_i = 0
    /\ phys_buffer = <<"none">>
    /\ serr = "none"
    /\ calls = 1
    /\ first_call = [err |-> "none", data |-> <<>>]
    /\ entry_start = 0
    /\ entry_offset = 0
    /\ RdIdle /\ GeIdle /\ ExIdle /\ CtIdle

\* lines 201-205: the five fields of the fixed header, 16 bytes in all, read
\* at the cursor; HeaderRead is the number of bytes the reads consume before
\* one of them would pass the end of the buffer
HeaderFields == <<4, 2, 2, 4, 4>>

RECURSIVE HeaderReadFrom(_, _)
HeaderReadFrom(k, left) ==
    IF k > Len(HeaderFields) \/ HeaderFields[k] > left THEN 0
    ELSE HeaderFields[k] + HeaderReadFrom(k + 1, left - HeaderFields[k])

HeaderRead == HeaderReadFrom(1, Len(reader_buf) - reader_pos)

\* lines 201-207: the fixed header, and the seek to the block table
ScanHeader ==
    /\ mode = "scan" /\ spc = "header"
    /\ HeaderRead = 16
    /\ LET block_offset == ReadUInt32(reader_pos + 8) IN
       /\ block_count' = ReadUInt32(reader_pos + 12)
       /\ reader_pos' = (reader_pos + 16) + (block_offset - 8)
    /\ blk_i' = 0
    /\ spc' = "loop"
    /\ UNCHANGED <<mode, notSc, blocks, reader_buf, phys_buffer, serr,
                   calls, first_call, entry_start, entry_offset>>

\* lines 201-205: a read of the header passes the end of the reader's bytes:
\* the BinaryReader raises and the exception leaves get_physics_file
ScanHeaderPastEnd ==
    /\ mode = "scan" /\ spc = "header"
    /\ HeaderRead < 16
    /\ reader_pos' = reader_pos + HeaderRead
    /\ spc' = "error" /\ serr' = "Exception"
    /\ UNCHANGED <<mode, notSc, blocks, reader_buf, block_count, blk_i, phys_buffer,
                   calls, first_call, entry_start, entry_offset>>

\* lines 210-215: the three fields of the entry at the cursor
block_type == ReadUInt32(reader_pos)
position == reader_pos + 4
\* (a mutant first: the relative offset counted from the end of its field)
OffsetAfterField == (position + 4) + ReadUInt32(position)

offset == position + ReadUInt32(position)
size == ReadUInt32(position + 4)

\* lines 216-230: what the loop body does with an entry, a mutant first: the
\* test of the size left out
EntryOutcomeNoSizeTest(btype, sz) ==
    IF btype = PHYS THEN "return" ELSE "seek"

EntryOutcome(btype, sz) ==
    IF sz = 0 THEN "continue"
    ELSE IF btype = PHYS THEN "return"
    ELSE "seek"

\* line 230: self.reader.seek(position + 0x8, Whence.BEGIN), a mutant first
NextEntrySeekShort(p) == p + 4

NextEntrySeek(p) == p + 8

\* lines 216-217: an entry of size 0: continue, the cursor stays behind the
\* size; a mutant first: the continue taken before the size is consumed
ScanEntryEmptyEarly ==
    /\ mode = "scan" /\ spc = "loop" /\ blk_i < block_count
    /\ EntryOutcome(block_type, size) = "continue"
    /\ reader_pos' = position + 4
    /\ blk_i' = blk_i + 1
    /\ entry_start' = reader_pos
    /\ entry_offset' = offset
    /\ UNCHANGED <<mode, notSc, blocks, reader_buf, spc, block_count, phys_buffer, serr,
                   calls, first_call>>

ScanEntryEmpty ==
    /\ mode = "scan" /\ spc = "loop" /\ blk_i < block_count
    /\ EntryOutcome(block_type, size) = "continue"
    /\ reader_pos' = position + 8
    /\ blk_i' = blk_i + 1
    /\ entry_start' = reader_pos
    /\ entry_offset' = offset
    /\ UNCHANGED <<mode, notSc, blocks, reader_buf, spc, block_count, phys_buffer, serr,
                   calls, first_call>>

\* lines 219-228: the PHYS entry: seek to its data, read size bytes, return
ScanEntryPhys ==
    /\ mode = "scan" /\ spc = "loop" /\ blk_i < block_count
    /\ EntryOutcome(block_type, size) = "return"
    /\ phys_buffer' = Slice(reader_buf, offset, offset + size)
    /\ reader_pos' = offset + Len(Slice(reader_buf, offset, offset + size))
    /\ blk_i' = blk_i + 1
    /\ spc' = "done"
    /\ entry_start' = reader_pos
    /\ entry_offset' = offset
    /\ UNCHANGED <<mode, notSc, blocks, reader_buf, block_count, serr, calls, first_call>>

\* line 230: any other entry: seek to the next one
ScanEntryOther ==
    /\ mode = "scan" /\ spc = "loop" /\ blk_i < block_count
    /\ EntryOutcome(block_type, size) = "seek"
    /\ reader_pos' = NextEntrySeek(position)
    /\ blk_i' = blk_i + 1
    /\ entry_start' = reader_pos
    /\ entry_offset' = offset
    /\ UNCHANGED <<mode, notSc, blocks, reader_buf, spc, block_count, phys_buffer, serr,
                   calls, first_call>>

\* line 232: the table is exhausted
ScanNotFound ==
    /\ mode = "scan" /\ spc = "loop" /\ blk_i = block_count
    /\ spc' = "error" /\ serr' = "RuntimeError"
    /\ UNCHANGED <<mode, notSc, blocks, reader_buf, reader_pos, block_count, blk_i, phys_buffer,
                   calls, first_call, entry_start, entry_offset>>

\* lines 200, 234-236: get_physics_file (or the property vphys_c) is called
\* again on the same ModelFile: the locals are new, self.reader is the one
\* __init__ built (line 198) and its cursor is where the last call left it
ScanAgain ==
    /\ mode = "scan" /\ spc \in {"done", "error"}
    /\ calls < MaxCalls
    /\ calls' = calls + 1
    /\ first_call' = IF calls # 1 THEN first_call
                     ELSE IF spc = "done" THEN [err |-> "none", data |-> phys_buffer]
                     ELSE [err |-> serr, data |-> <<>>]
    /\ spc' = "header"
    /\ block_count' = 0
    /\ blk_i' = 0
    /\ phys_buffer' = <<"none">>
    /\ serr' = "none"
    /\ UNCHANGED <<mode, notSc, blocks, reader_buf, reader_pos, entry_start, entry_offset>>

NextScan ==
    \/ ScanHeader \/ ScanHeaderPastEnd \/ ScanEntryEmpty \/ ScanEntryPhys
    \/ ScanEntryOther \/ ScanNotFound \/ ScanAgain

SpecScan == InitScan /\ [][NextScan]_vars

-----------------------------------------------------------------------------
(* Claims about the block scanner *)

\* the entries (1-based) tagged PHYS
PhysEntries == {i \in 1..Len(blocks) : blocks[i].tag = PHYS}

\* the entries tagged PHYS whose size is not zero
PhysMatches == {i \in PhysEntries : blocks[i].size # 0}

\* the data of a block, as the container holds it
BlockData(blk) == Slice(reader_buf, blk.off, blk.off + blk.size)

\* C3: when entry k is the only entry tagged PHYS, and its size is not zero,
\* get_physics_file ends by reading exactly the size bytes at that entry's
\* data offset, whatever the number N of entries and the position k.
C3_ScannerFindsPhys ==
    (mode = "scan" /\ calls = 1 /\ spc \in {"done", "error"}
        /\ Cardinality(PhysEntries) = 1 /\ PhysMatches # {})
        => \A k \in PhysMatches :
              /\ spc = "done"
              /\ blk_i = k
              /\ phys_buffer = BlockData(blocks[k])

C3_Witness ==
    /\ mode = "scan" /\ calls = 1 /\ spc = "done"
    /\ Len(blocks) = 3 /\ PhysEntries = {3} /\ PhysMatches = {3}
    /\ blocks[1].size # 0 /\ blocks[2].size = 0
    /\ phys_buffer = BlockData(blocks[3]) /\ Len(phys_buffer) = 2

\* C8: when no entry has the tag PHYS together with a non-zero size,
\* get_physics_file reads at most block_count entries, all of them inside
\* the table, and fails with the block-not-found error, returning no data.
C8_ScannerNotFound ==
    (mode = "scan" /\ calls = 1 /\ spc # "header" /\ PhysMatches = {})
        => /\ spc # "done"
           /\ phys_buffer = <<"none">>
           /\ blk_i <= block_count
           /\ block_count = Len(blocks)
           /\ reader_pos <= Len(reader_buf) - DataLen
           /\ (spc = "error" => serr = "RuntimeError" /\ blk_i = block_count)

C8_Witness ==
    /\ mode = "scan" /\ calls = 1 /\ spc = "error" /\ serr = "RuntimeError"
    /\ Len(blocks) = 3 /\ blk_i = 3
    /\ PhysEntries = {2} /\ blocks[2].size = 0
    /\ blocks[1].size # 0
    /\ phys_buffer = <<"none">>

\* what a finished call gave its caller
CallReturned == spc = "done"

\* the value of the data_rel_offset field of the entry that starts at byte e,
\* read from the container's bytes
RelOffsetField(e) == FromBytesLE(SubSeq(reader_buf, e + 5, e + 8))

\* the byte at which entry i (0-based) of the table starts, from the header's
\* block_offset field at 0x08
TableEntryStart(i) == 8 + FromBytesLE(SubSeq(reader_buf, 9, 12)) + 12 * i

\* C12: invocations are independent: on one ModelFile whose container holds
\* a non-empty PHYS block, a second call of get_physics_file returns the
\* same physics data as the first call.
C12_SecondCallSame ==
    (mode = "scan" /\ calls = 2 /\ spc \in {"done", "error"}
        /\ first_call.err = "none")
        => (CallReturned /\ phys_buffer = first_call.data)

\* C13 as the specification states it: for every entry read, the absolute
\* data offset is the cursor position immediately after the data_rel_offset
\* field (entry start + 8) plus the value of the field.
C13_OffsetBaseAfterField ==
    (mode = "scan" /\ calls = 1 /\ blk_i >= 1)
        => entry_offset = (entry_start + 8) + RelOffsetField(entry_start)

\* C13, amended: for every entry read, the absolute data offset is the
\* position of the data_rel_offset field itself (the cursor immediately
\* before the field is read, entry start + 4) plus the value of the field;
\* the bytes returned for the PHYS entry start at that offset, which is
\* where the container holds the block's data.
C13_OffsetBaseAtField ==
    (mode = "scan" /\ calls = 1 /\ blk_i >= 1)
        => /\ entry_start = TableEntryStart(blk_i - 1)
           /\ entry_offset = (entry_start + 4) + RelOffsetField(entry_start)
           /\ entry_offset = blocks[blk_i].off
           /\ CallReturned =>
                 /\ reader_pos - Len(phys_buffer) = entry_offset
                 /\ phys_buffer = SubSeq(reader_buf, entry_offset + 1,
                                         entry_offset + Len(phys_buffer))

C13_Witness ==
    /\ mode = "scan" /\ calls = 1 /\ CallReturned /\ blk_i = 2
    /\ RelOffsetField(entry_start) = 10
    /\ entry_offset = entry_start + 14
    /\ phys_buffer = <<203, 204>>

\* C14 as the specification states it: after the three fields of an entry
\* that does not match (wrong tag, or size zero) the cursor is at that
\* entry's start + 8 when the next entry is read.
C14_NextEntryAtPlus8 ==
    (mode = "scan" /\ calls = 1 /\ spc = "loop" /\ blk_i >= 1)
        => reader_pos = entry_start + 8

\* C14, amended: after the three fields of an entry that does not match
\* (wrong tag, or size zero) the cursor is at that entry's start + 12, the
\* position of its data_rel_offset field + 8, which is where the next entry
\* of the table starts.
C14_NextEntryAtPlus12 ==
    (mode = "scan" /\ calls = 1 /\ spc = "loop" /\ blk_i >= 1)
        => /\ reader_pos = entry_start + 12
           /\ reader_pos = TableEntryStart(blk_i)

C14_Witness ==
    /\ mode = "scan" /\ calls = 1 /\ spc = "loop" /\ blk_i = 2
    /\ blocks[1].tag = DATA /\ blocks[1].size # 0
    /\ blocks[2].tag = PHYS /\ blocks[2].size = 0
    /\ Len(blocks) = 3
    /\ reader_pos = entry_start + 12

-----------------------------------------------------------------------------
(* PhysicsFile.get_hulls: the triangles of one hull *)

\* edges[i] of the bytes m_Edges (0-based); Python raises IndexError past the end
EdgeByteRaises(edges, i) == i >= Len(edges)
EdgeByte(edges, i) == edges[i + 1]

\* vertices[b : b + 0xC] with b = v * 0xC: a slice, clipped and never an error
VertexSlice(vertices, v) == Slice(vertices, v * 12, v * 12 + 12)

\* lines 70-76: whether one iteration of the while loop raises IndexError
WalkRaises(h, s, e) ==
    \/ EdgeByteRaises(h.m_Edges, e * 4)
    \/ EdgeByteRaises(h.m_Edges, e * 4 + 2)
    \/ EdgeByteRaises(h.m_Edges, s * 4 + 2)
    \/ EdgeByteRaises(h.m_Edges, EdgeByte(h.m_Edges, e * 4) * 4 + 2)

\* line 70: next_edge = edges[edge << 2]
NextEdge(h, e) == EdgeByte(h.m_Edges, e * 4)

\* lines 72-76: the bytes one iteration appends: the vertices at the origins
\* of edge, of start_edge and of next_edge
WalkTriangle(h, s, e) ==
    VertexSlice(h.m_VertexPositions, EdgeByte(h.m_Edges, e * 4 + 2))
      \o VertexSlice(h.m_VertexPositions, EdgeByte(h.m_Edges, s * 4 + 2))
      \o VertexSlice(h.m_VertexPositions, EdgeByte(h.m_Edges, NextEdge(h, e) * 4 + 2))

\* the 12 bytes of vertex v in the model's vertex buffers
VertexBytes(v) == [j \in 1..12 |-> 16 * v + j]

VertexBuffer(nv) == Concat([i \in 1..nv |-> VertexBytes(i - 1)])

\* a hull of ne half-edges, edge e being (next = nxt[e], twin = 0, origin =
\* org[e], face = 0), over nv vertices
MakeHull(ne, nxt, org, nv, faces) ==
    [m_VertexPositions |-> VertexBuffer(nv),
     m_Faces |-> faces,
     m_Edges |-> Concat([i \in 1..ne |-> <<nxt[i - 1], 0, org[i - 1], 0>>])]

\* a cube: 8 vertices, 6 quad faces, face f made of the half-edges 4f .. 4f+3
CubeCorners ==
    <<0, 1, 2, 3,  4, 5, 6, 7,  0, 1, 5, 4,  1, 2, 6, 5,  2, 3, 7, 6,  3, 0, 4, 7>>

Cube ==
    MakeHull(24,
             [e \in 0..23 |-> 4 * (e \div 4) + ((e + 1) % 4)],
             [e \in 0..23 |-> CubeCorners[e + 1]],
             8,
             <<0, 4, 8, 12, 16, 20>>)

\* the hulls of the model: every next function over 1..MaxEdges half-edges
\* (closed loops and chains that never come back), one face; and the cube
GeneratedHulls ==
    UNION {{MakeHull(ne, nxt, [e \in 0..(ne - 1) |-> e], ne, <<s>>) :
                nxt \in [0..(ne - 1) -> 0..(ne - 1)], s \in 0..(ne - 1)} :
           ne \in 1..MaxEdges}

NumEdges(h) == Len(h.m_Edges) \div 4

InitHull ==
    /\ mode = "hull"
    /\ hull \in GeneratedHulls \cup {Cube}
    /\ mesh = <<>>
    /\ gpc = "faces"
    /\ face_i = 0
    /\ start_edge = 0
    /\ edge = 0
    /\ iters = 0
    /\ tri_i = 0
    /\ saved_triangles = <<>>
    /\ gerr = "none"
    /\ RdIdle /\ ScIdle /\ ExIdle /\ CtIdle

\* lines 67-68: the next face: start_edge, and edge = edges[start_edge << 2]
HullFace ==
    /\ mode = "hull" /\ gpc = "faces" /\ face_i < Len(hull.m_Faces)
    /\ LET s == hull.m_Faces[face_i + 1] IN
       /\ start_edge' = s
       /\ face_i' = face_i + 1
       /\ iters' = 0
       /\ IF EdgeByteRaises(hull.m_Edges, s * 4)
          THEN /\ gpc' = "error" /\ gerr' = "IndexError" /\ edge' = edge
          ELSE /\ gpc' = "walk" /\ gerr' = gerr /\ edge' = EdgeByte(hull.m_Edges, s * 4)
    /\ UNCHANGED <<mode, notGe, hull, mesh, tri_i, saved_triangles>>

\* lines 69-77: one iteration of "while edge != start_edge".  The code has no
\* bound on the iterations; the model follows a walk for MaxEdges + WalkSlack
\* iterations (the cube's walks are shorter).
HullWalk ==
    /\ mode = "hull" /\ gpc = "walk" /\ edge # start_edge
    /\ iters < MaxEdges + WalkSlack
    /\ iters' = iters + 1
    /\ IF WalkRaises(hull, start_edge, edge)
       THEN /\ gpc' = "error" /\ gerr' = "IndexError"
            /\ UNCHANGED <<edge, saved_triangles>>
       ELSE /\ saved_triangles' = saved_triangles \o WalkTriangle(hull, start_edge, edge)
            /\ edge' = NextEdge(hull, edge)
            /\ UNCHANGED <<gpc, gerr>>
    /\ UNCHANGED <<mode, notGe, hull, mesh, face_i, start_edge, tri_i>>

\* line 69: edge = start_edge ends the walk of the face
HullFaceDone ==
    /\ mode = "hull" /\ gpc = "walk" /\ edge = start_edge
    /\ gpc' = "faces"
    /\ UNCHANGED <<mode, notGe, hull, mesh, face_i, start_edge, edge, iters, tri_i, saved_triangles, gerr>>

\* line 78: yield saved_triangles
HullYield ==
    /\ mode = "hull" /\ gpc = "faces" /\ face_i = Len(hull.m_Faces)
    /\ gpc' = "yielded"
    /\ UNCHANGED <<mode, notGe, hull, mesh, face_i, start_edge, edge, iters, tri_i, saved_triangles, gerr>>

NextHull == HullFace \/ HullWalk \/ HullFaceDone \/ HullYield

SpecHull == InitHull /\ [][NextHull]_vars

-----------------------------------------------------------------------------
(* Claims about the hull extraction *)

RECURSIVE LoopLenFrom(_, _, _, _)
\* the number of steps of next that lead from e back to s, 0 if there is none
\* among the first `left` steps
LoopLenFrom(h, s, e, left) ==
    IF left = 0 \/ EdgeByteRaises(h.m_Edges, e * 4) THEN 0
    ELSE IF NextEdge(h, e) = s THEN 1
    ELSE LET r == LoopLenFrom(h, s, NextEdge(h, e), left - 1) IN
         IF r = 0 THEN 0 ELSE r + 1

\* the number n of edges of the closed loop of the face that starts at s, 0
\* when the chain of next never returns to s
LoopLen(h, s) == LoopLenFrom(h, s, s, NumEdges(h))

RECURSIVE SumFan(_, _)
\* the triangles of a fan triangulation of the first k faces: n - 2 each
SumFan(h, k) ==
    IF k = 0 THEN 0 ELSE SumFan(h, k - 1) + (LoopLen(h, h.m_Faces[k]) - 2)

\* every face is a closed loop of at least 3 edges
WellFormedHull(h) == \A k \in 1..Len(h.m_Faces) : LoopLen(h, h.m_Faces[k]) >= 3

\* C4: hull extraction is a fan triangulation: a closed face of n edges
\* contributes exactly n - 2 triangles (36 bytes each), so the cube's 6 quad
\* faces yield exactly 12 triangles.
C4_FanTriangulation ==
    (mode = "hull" /\ gpc = "yielded" /\ WellFormedHull(hull))
        => Len(saved_triangles) = 36 * SumFan(hull, Len(hull.m_Faces))

\* C5: the walk of a face stops after at most as many iterations as the edge
\* buffer has edges, also when the chain of next never returns to start_edge.
C5_WalkBounded ==
    mode = "hull" => iters <= NumEdges(hull)

\* the 12 bytes of the vertex at the origin of half-edge e
OriginVertex(h, e) ==
    LET o == h.m_Edges[4 * e + 3]
    IN SubSeq(h.m_VertexPositions, 12 * o + 1, 12 * o + 12)

\* C15: every triangle appended while a face is walked holds, in this order,
\* the vertex at origin(start_edge), the vertex at origin(edge) and the
\* vertex at origin(next_edge), next_edge = next(edge) being the edge the
\* walk goes on from.
C15_VertexOrder ==
    [][(mode = "hull" /\ gpc = "walk" /\ saved_triangles' # saved_triangles)
          => saved_triangles' = saved_triangles
                                  \o OriginVertex(hull, start_edge)
                                  \o OriginVertex(hull, edge)
                                  \o OriginVertex(hull, edge')]_vars

-----------------------------------------------------------------------------
(* PhysicsFile.get_meshes: the triangles of one mesh *)

\* (n * 0x55555555) >> 34, the multiplier being the reciprocal rounded down
\* (0x55555555 = 21845 * 2^16 + 21845): a mutant of the count below
ReciprocalDiv12RoundedDown(n) ==
    LET nh == n \div 65536
        nl == n % 65536
        a == nh * 21845
        b == nl * 21845
        c == (nl * 21845) \div 65536
        mid == a \div 65536 + b \div 65536 + ((a % 65536) + (b % 65536) + c) \div 65536
    IN (nh * 21845 + mid) \div 4

\* (n * 0x55555556) >> 34, as Python computes it on unbounded integers, for
\* 0 <= n < 2^31.  0x55555556 = 21845 * 2^16 + 21846; the product is formed
\* in 16-bit limbs and the low 32 bits are shifted out first, then 2 more.
ReciprocalDiv12(n) ==
    LET nh == n \div 65536
        nl == n % 65536
        a == nh * 21846
        b == nl * 21845
        c == (nl * 21846) \div 65536
        mid == a \div 65536 + b \div 65536 + ((a % 65536) + (b % 65536) + c) \div 65536
    IN (nh * 21845 + mid) \div 4

\* line 97: range((len(triangles) * 0x55555556) >> 34)
TriangleCount(m) == ReciprocalDiv12(Len(m.m_Triangles))

\* lines 101-103: the vertex slice for the index read at byte offset b of
\* m_Triangles: int.from_bytes(triangles[b : b + 4], "little") * 0xC
IndexedVertex(m, b) ==
    VertexSlice(m.m_Vertices, FromBytesLE(Slice(m.m_Triangles, b, b + 4)))

\* lines 98-104: the bytes appended for the loop counter t, a mutant first:
\* the third index read at the offset of the second
MeshTriangleRepeatedOffset(m, t) ==
    LET triangle == t * 4 + t * 8 IN
    IndexedVertex(m, triangle) \o IndexedVertex(m, triangle + 4) \o IndexedVertex(m, triangle + 4)

MeshTriangle(m, t) ==
    LET triangle == t * 4 + t * 8 IN
    IndexedVertex(m, triangle) \o IndexedVertex(m, triangle + 4) \o IndexedVertex(m, triangle + 8)

\* the number of vertices of the generated meshes, and the lengths of the
\* bytes that may follow the last whole index triple
MeshVerts == 3
MeshTrailing == {0, 5, 11}

\* a mesh over nv vertices whose index buffer holds the triples idx, each
\* index a little-endian int32, and then r more bytes
MakeMesh(nv, idx, r) ==
    [m_Triangles |-> Concat([i \in 1..Len(idx) |->
                        ToBytesLE(idx[i][1], 4) \o ToBytesLE(idx[i][2], 4) \o ToBytesLE(idx[i][3], 4)])
                     \o [j \in 1..r |-> 1],
     m_Vertices |-> VertexBuffer(nv)]

GeneratedMeshes ==
    {MakeMesh(MeshVerts, idx, r) :
        idx \in SeqsUpTo([1..3 -> 0..(MeshVerts - 1)], MaxMeshTris), r \in MeshTrailing}

InitMesh ==
    /\ mode = "mesh"
    /\ mesh \in GeneratedMeshes
    /\ hull = <<>>
    /\ gpc = "triangles"
    /\ face_i = 0
    /\ start_edge = 0
    /\ edge = 0
    /\ iters = 0
    /\ tri_i = 0
    /\ saved_triangles = <<>>
    /\ gerr = "none"
    /\ RdIdle /\ ScIdle /\ ExIdle /\ CtIdle

\* lines 97-104: one iteration of the loop over the triangles
MeshLoop ==
    /\ mode = "mesh" /\ gpc = "triangles" /\ tri_i < TriangleCount(mesh)
    /\ saved_triangles' = saved_triangles \o MeshTriangle(mesh, tri_i)
    /\ tri_i' = tri_i + 1
    /\ UNCHANGED <<mode, notGe, hull, mesh, gpc, face_i, start_edge, edge, iters, gerr>>

\* line 105: yield saved_triangles
MeshYield ==
    /\ mode = "mesh" /\ gpc = "triangles" /\ tri_i = TriangleCount(mesh)
    /\ gpc' = "yielded"
    /\ UNCHANGED <<mode, notGe, hull, mesh, face_i, start_edge, edge, iters, tri_i, saved_triangles, gerr>>

NextMesh == MeshLoop \/ MeshYield

SpecMesh == InitMesh /\ [][NextMesh]_vars

\* line 97 alone, over buffer lengths a mesh of the model cannot have: the
\* lengths from 0, around every power of two up to 2^30, and the LenSpan
\* lengths below 2^31
LenAnchors == {0} \cup {2^k - 12 : k \in 4..30}

SampleLengths ==
    {a + dl : a \in LenAnchors, dl \in 0..(LenSpan - 1)}
        \cup {2147483647 - dl : dl \in 0..(LenSpan - 1)}

InitCount ==
    /\ mode = "count"
    /\ tri_len \in SampleLengths
    /\ cpc = "call"
    /\ n_range = 0
    /\ RdIdle /\ ScIdle /\ GeIdle /\ ExIdle

\* line 97: the argument of range() is computed
CountRange ==
    /\ mode = "count" /\ cpc = "call"
    /\ n_range' = ReciprocalDiv12(tri_len)
    /\ cpc' = "done"
    /\ UNCHANGED <<mode, notCt, tri_len>>

NextCount == CountRange

SpecCount == InitCount /\ [][NextCount]_vars

-----------------------------------------------------------------------------
(* Claims about the mesh extraction *)

\* the little-endian 32-bit index at byte offset b of the index buffer
IndexAt(m, b) == FromBytesLE(SubSeq(m.m_Triangles, b + 1, b + 4))

\* every index of a whole triple names a vertex of the vertex buffer
ValidMesh(m) ==
    \A i \in 0..(Len(m.m_Triangles) \div 12 - 1) : \A j \in 0..2 :
        12 * IndexAt(m, 12 * i + 4 * j) + 12 <= Len(m.m_Vertices)

\* C7: for an index buffer of L bytes with valid indices, get_meshes emits
\* exactly L div 12 triangles, and vertex j of triangle i is the 12 bytes
\* vertices[12*v : 12*v + 12], v being the little-endian 32-bit index at byte
\* offset 12*i + 4*j of the index buffer.
C7_MeshExtraction ==
    (mode = "mesh" /\ gpc = "yielded" /\ ValidMesh(mesh))
        => /\ Len(saved_triangles) = 36 * (Len(mesh.m_Triangles) \div 12)
           /\ \A i \in 0..(Len(mesh.m_Triangles) \div 12 - 1) : \A j \in 0..2 :
                LET v == IndexAt(mesh, 12 * i + 4 * j) IN
                SubSeq(saved_triangles, 36 * i + 12 * j + 1, 36 * i + 12 * j + 12)
                    = SubSeq(mesh.m_Vertices, 12 * v + 1, 12 * v + 12)

C7_Witness ==
    /\ mode = "mesh" /\ gpc = "yielded"
    /\ Len(mesh.m_Triangles) = 29
    /\ IndexAt(mesh, 0) = 2 /\ IndexAt(mesh, 4) = 0 /\ IndexAt(mesh, 8) = 1
    /\ IndexAt(mesh, 12) = 1 /\ IndexAt(mesh, 16) = 2 /\ IndexAt(mesh, 20) = 2
    /\ Len(saved_triangles) = 72
    /\ SubSeq(saved_triangles, 1, 12) = VertexBytes(2)
    /\ SubSeq(saved_triangles, 61, 72) = VertexBytes(2)

\* C16: for every buffer length L with 0 <= L < 2^31 the multiply and shift
\* (L * 0x55555556) >> 34 equals L div 12 (floor division).
C16_ReciprocalIsDiv12 ==
    (mode = "count" /\ cpc = "done")
        => ((0 <= tri_len /\ tri_len <= 2147483647) => n_range = tri_len \div 12)

\* the largest length below 2^31 that leaves the remainder 11
C16_Witness ==
    /\ mode = "count" /\ cpc = "done"
    /\ tri_len = 2147483639 /\ tri_len % 12 = 11
    /\ n_range = 178956969

-----------------------------------------------------------------------------
(* PhysicsFile.to_triangle_file and to_opt_file over a decoded mapping *)

RECURSIVE FaceWalk(_, _, _, _)
\* lines 69-77 run to their end for one face: the exception raised ("none" if
\* none) and the bytes appended.  A walk that has not returned to s after
\* NumEdges(h) iterations never does: "diverges".
FaceWalk(h, s, e, left) ==
    IF e = s THEN [err |-> "none", out |-> <<>>]
    ELSE IF left = 0 THEN [err |-> "diverges", out |-> <<>>]
    ELSE IF WalkRaises(h, s, e) THEN [err |-> "IndexError", out |-> <<>>]
    ELSE LET r == FaceWalk(h, s, NextEdge(h, e), left - 1) IN
         [err |-> r.err, out |-> WalkTriangle(h, s, e) \o r.out]

RECURSIVE HullFrom(_, _)
\* lines 66-78 from face number k (0-based) on
HullFrom(h, k) ==
    IF k = Len(h.m_Faces) THEN [err |-> "none", out |-> <<>>]
    ELSE LET s == h.m_Faces[k + 1] IN
         IF EdgeByteRaises(h.m_Edges, s * 4) THEN [err |-> "IndexError", out |-> <<>>]
         ELSE LET f == FaceWalk(h, s, EdgeByte(h.m_Edges, s * 4), NumEdges(h)) IN
              IF f.err # "none" THEN f
              ELSE LET r == HullFrom(h, k + 1) IN [err |-> r.err, out |-> f.out \o r.out]

\* get_hulls, lines 58-78: what one hull yields; hull["m_Faces"] and
\* hull["m_Edges"] raise KeyError when the mapping has no such key
HullExtract(h) ==
    IF {"m_Faces", "m_Edges"} \subseteq DOMAIN h THEN HullFrom(h, 0)
    ELSE [err |-> "KeyError", out |-> <<>>]

RECURSIVE MeshFrom(_, _)
MeshFrom(m, t) ==
    IF t >= TriangleCount(m) THEN <<>> ELSE MeshTriangle(m, t) \o MeshFrom(m, t + 1)

\* get_meshes, lines 92-105: what one mesh yields; mesh["m_Triangles"] and
\* mesh["m_Vertices"] raise KeyError when the mapping has no such key
MeshExtract(m) ==
    IF {"m_Triangles", "m_Vertices"} \subseteq DOMAIN m
    THEN [err |-> "none", out |-> MeshFrom(m, 0)]
    ELSE [err |-> "KeyError", out |-> <<>>]

\* lines 48-50 and 82-84: the collision attribute of entry i (0-based) of the
\* list: <<v>> for the value v, and <<>> for None, when the lookup raises (no
\* such entry, or no such key in the entry)
Collision(parts, i) ==
    IF i >= Len(parts) THEN <<>>
    ELSE parts[i + 1].m_nCollisionAttributeIndex

\* lines 52-56 and 86-90: what the generator does at an index, a mutant
\* first: a part of another attribute ends the scan
PartStepStopsAtOther(collision) ==
    IF collision = <<>> THEN "break"
    ELSE IF collision[1] # 0 THEN "break"
    ELSE "extract"

PartStep(collision) ==
    IF collision = <<>> THEN "break"
    ELSE IF collision[1] # 0 THEN "continue"
    ELSE "extract"

\* to_triangle_file, line 111: data.extend(triangles), a mutant first: the
\* bytes of the part replace data
TriAppendReplaces(d, tris) == tris

TriAppend(d, tris) == d \o tris

\* the parts of the model (m_nCollisionAttributeIndex is <<v>>, or <<>> when
\* the entry has no such key): a hull of one triangular face, a hull of no face,
\* a mesh of one triangle, a mesh whose third index is past the vertices, a
\* hull whose face names a half-edge past the end of m_Edges, a mesh without
\* the key m_Triangles
HullTri == MakeHull(3, [e \in 0..2 |-> (e + 1) % 3], [e \in 0..2 |-> e], 3, <<0>>)
HullNoFace == MakeHull(3, [e \in 0..2 |-> (e + 1) % 3], [e \in 0..2 |-> e], 3, <<>>)
MeshOne == MakeMesh(3, <<(<<2, 0, 1>>)>>, 5)
MeshPastEnd == MakeMesh(3, <<(<<0, 1, 3>>)>>, 0)
HullPastEdges == MakeHull(3, [e \in 0..2 |-> (e + 1) % 3], [e \in 0..2 |-> e], 3, <<3>>)
MeshNoTriangles == [m_Vertices |-> VertexBuffer(3)]

HullParts ==
    {[m_nCollisionAttributeIndex |-> <<>>, m_Hull |-> HullTri],
     [m_nCollisionAttributeIndex |-> <<1>>, m_Hull |-> HullTri],
     [m_nCollisionAttributeIndex |-> <<0>>, m_Hull |-> HullTri],
     [m_nCollisionAttributeIndex |-> <<0>>, m_Hull |-> HullNoFace],
     [m_nCollisionAttributeIndex |-> <<0>>, m_Hull |-> HullPastEdges]}

MeshParts ==
    {[m_nCollisionAttributeIndex |-> <<>>, m_Mesh |-> MeshOne],
     [m_nCollisionAttributeIndex |-> <<1>>, m_Mesh |-> MeshOne],
     [m_nCollisionAttributeIndex |-> <<0>>, m_Mesh |-> MeshOne],
     [m_nCollisionAttributeIndex |-> <<0>>, m_Mesh |-> MeshPastEnd],
     [m_nCollisionAttributeIndex |-> <<0>>, m_Mesh |-> MeshNoTriangles]}

InitExtract ==
    /\ mode = "extract"
    /\ \E hs \in SeqsUpTo(HullParts, MaxHullParts), ms \in SeqsUpTo(MeshParts, MaxMeshParts) :
         phys_data = [m_hulls |-> hs, m_meshes |-> ms]
    /\ call = "tri"
    /\ epc = "loop"
    /\ gen = "hulls"
    /\ gen_index = 0
    /\ data = <<>>
    /\ chunk_counter = 0
    /\ yielded = <<>>
    /\ count_at = {}
    /\ tri_out = <<"none">>
    /\ opt_out = <<"none">>
    /\ eerr = "none"
    /\ RdIdle /\ ScIdle /\ GeIdle /\ CtIdle

\* the body of the loop of the running method for the bytes a part yields,
\* or the exception of the part; a mutant first: the exception of a part is
\* caught and the part passed over
ConsumeSkipsRaising(kind, r) ==
    IF r.err # "none"
    THEN /\ gen_index' = gen_index + 1
         /\ UNCHANGED <<epc, eerr, data, chunk_counter, yielded, count_at>>
    ELSE /\ data' = IF call = "tri" THEN TriAppend(data, r.out) ELSE OptAppend(data, r.out)
         /\ chunk_counter' = IF call = "opt" THEN chunk_counter + 1 ELSE chunk_counter
         /\ count_at' = IF call = "opt" THEN count_at \cup {Len(data)} ELSE count_at
         /\ yielded' = Append(yielded, <<kind, gen_index, r.out>>)
         /\ gen_index' = gen_index + 1
         /\ UNCHANGED <<epc, eerr>>

Consume(kind, r) ==
    IF r.err # "none"
    THEN /\ epc' = "error" /\ eerr' = r.err
         /\ UNCHANGED <<gen_index, data, chunk_counter, yielded, count_at>>
    ELSE /\ data' = IF call = "tri" THEN TriAppend(data, r.out) ELSE OptAppend(data, r.out)
         /\ chunk_counter' = IF call = "opt" THEN chunk_counter + 1 ELSE chunk_counter
         /\ count_at' = IF call = "opt" THEN count_at \cup {Len(data)} ELSE count_at
         /\ yielded' = Append(yielded, <<kind, gen_index, r.out>>)
         /\ gen_index' = gen_index + 1
         /\ UNCHANGED <<epc, eerr>>

\* get_hulls, lines 55-56: a hull of another attribute is passed over
HullsContinue ==
    /\ mode = "extract" /\ epc = "loop" /\ gen = "hulls"
    /\ PartStep(Collision(phys_data.m_hulls, gen_index)) = "continue"
    /\ gen_index' = gen_index + 1
    /\ UNCHANGED <<mode, notEx, phys_data, call, epc, gen, data, chunk_counter, yielded, count_at,
                   tri_out, opt_out, eerr>>

\* get_hulls, lines 58-78, and the loop body of the method
HullsYield ==
    /\ mode = "extract" /\ epc = "loop" /\ gen = "hulls"
    /\ PartStep(Collision(phys_data.m_hulls, gen_index)) = "extract"
    /\ Consume("hull", HullExtract(phys_data.m_hulls[gen_index + 1].m_Hull))
    /\ UNCHANGED <<mode, notEx, phys_data, call, gen, tri_out, opt_out>>

\* get_hulls, lines 52-53: break; the chain goes on with get_meshes
HullsBreak ==
    /\ mode = "extract" /\ epc = "loop" /\ gen = "hulls"
    /\ PartStep(Collision(phys_data.m_hulls, gen_index)) = "break"
    /\ gen' = "meshes"
    /\ gen_index' = 0
    /\ UNCHANGED <<mode, notEx, phys_data, call, epc, data, chunk_counter, yielded, count_at,
                   tri_out, opt_out, eerr>>

\* get_meshes, lines 89-90
MeshesContinue ==
    /\ mode = "extract" /\ epc = "loop" /\ gen = "meshes"
    /\ PartStep(Collision(phys_data.m_meshes, gen_index)) = "continue"
    /\ gen_index' = gen_index + 1
    /\ UNCHANGED <<mode, notEx, phys_data, call, epc, gen, data, chunk_counter, yielded, count_at,
                   tri_out, opt_out, eerr>>

\* get_meshes, lines 92-105, and the loop body of the method
MeshesYield ==
    /\ mode = "extract" /\ epc = "loop" /\ gen = "meshes"
    /\ PartStep(Collision(phys_data.m_meshes, gen_index)) = "extract"
    /\ Consume("mesh", MeshExtract(phys_data.m_meshes[gen_index + 1].m_Mesh))
    /\ UNCHANGED <<mode, notEx, phys_data, call, gen, tri_out, opt_out>>

\* get_meshes, lines 86-87: break; the chain is exhausted
MeshesBreak ==
    /\ mode = "extract" /\ epc = "loop" /\ gen = "meshes"
    /\ PartStep(Collision(phys_data.m_meshes, gen_index)) = "break"
    /\ epc' = "return"
    /\ UNCHANGED <<mode, notEx, phys_data, call, gen, gen_index, data, chunk_counter, yielded,
                   count_at, tri_out, opt_out, eerr>>

\* to_triangle_file, line 118: return bytes(data); then to_opt_file is called
\* on the same PhysicsFile, lines 125-127
TriReturn ==
    /\ mode = "extract" /\ epc = "return" /\ call = "tri"
    /\ tri_out' = data
    /\ call' = "opt"
    /\ epc' = "loop"
    /\ gen' = "hulls"
    /\ gen_index' = 0
    /\ data' = [j \in 1..8 |-> 0]
    /\ chunk_counter' = 0
    /\ yielded' = <<>>
    /\ count_at' = {0}
    /\ UNCHANGED <<mode, notEx, phys_data, opt_out, eerr>>

\* to_opt_file, lines 133-140: the chunk count is written, return bytes(data)
OptFileReturn ==
    /\ mode = "extract" /\ epc = "return" /\ call = "opt"
    /\ data' = OptSetCount(data, chunk_counter)
    /\ opt_out' = OptSetCount(data, chunk_counter)
    /\ epc' = "done"
    /\ UNCHANGED <<mode, notEx, phys_data, call, gen, gen_index, chunk_counter, yielded, count_at,
                   tri_out, eerr>>

\* to_triangle_file has raised (no bytes returned, lines 113-118 not
\* reached); the caller goes on to to_opt_file on the same PhysicsFile,
\* lines 125-127
TriRaised ==
    /\ mode = "extract" /\ epc = "error" /\ call = "tri"
    /\ call' = "opt"
    /\ epc' = "loop"
    /\ gen' = "hulls"
    /\ gen_index' = 0
    /\ data' = [j \in 1..8 |-> 0]
    /\ chunk_counter' = 0
    /\ yielded' = <<>>
    /\ count_at' = {0}
    /\ eerr' = "none"
    /\ UNCHANGED <<mode, notEx, phys_data, tri_out, opt_out>>

NextExtract ==
    \/ HullsContinue \/ HullsYield \/ HullsBreak
    \/ MeshesContinue \/ MeshesYield \/ MeshesBreak
    \/ TriReturn \/ OptFileReturn \/ TriRaised

SpecExtract == InitExtract /\ [][NextExtract]_vars

-----------------------------------------------------------------------------
(* Claims about the selection of parts and the two output layouts *)

\* the attribute of entry i (0-based) is absent: no entry, or no key
AttrAbsent(parts, i) ==
    i >= Len(parts) \/ parts[i + 1].m_nCollisionAttributeIndex = <<>>

\* the first index at which the attribute is absent
ScanEnd(parts) ==
    CHOOSE k \in 0..Len(parts) :
        AttrAbsent(parts, k) /\ \A j \in 0..(k - 1) : ~AttrAbsent(parts, j)

\* the full triangle set of a part
FullSet(kind, part) ==
    IF kind = "hull" THEN HullExtract(part.m_Hull).out ELSE MeshExtract(part.m_Mesh).out

RECURSIVE Contributions(_, _, _)
\* <<kind, index, bytes>> of the parts of index below k whose attribute is 0,
\* by ascending index
Contributions(kind, parts, k) ==
    IF k = 0 THEN <<>>
    ELSE Contributions(kind, parts, k - 1)
           \o (IF parts[k].m_nCollisionAttributeIndex = <<0>>
               THEN <<(<<kind, k - 1, FullSet(kind, parts[k])>>)>>
               ELSE <<>>)

\* what the chain of the two scans is to yield: the hulls, then the meshes
Selected ==
    Contributions("hull", phys_data.m_hulls, ScanEnd(phys_data.m_hulls))
      \o Contributions("mesh", phys_data.m_meshes, ScanEnd(phys_data.m_meshes))

\* what the extraction of a selected part <<kind, index, bytes>> ends in
SelectedErr(c) ==
    IF c[1] = "hull" THEN HullExtract(phys_data.m_hulls[c[2] + 1].m_Hull).err
    ELSE MeshExtract(phys_data.m_meshes[c[2] + 1].m_Mesh).err

\* the first of the selected parts whose extraction raises, 0 if none does
FirstRaising ==
    LET R == {i \in 1..Len(Selected) : SelectedErr(Selected[i]) # "none"}
    IN IF R = {} THEN 0 ELSE CHOOSE i \in R : \A j \in R : i <= j

\* C6: in each of the two scans a part of non-zero attribute contributes
\* nothing and the scan goes on, a part of attribute 0 contributes its full
\* triangle set, and the first index whose attribute is absent ends the scan:
\* nothing at or beyond it contributes, and no error is raised.
\* (A selected part whose own extraction raises ends the call there: the
\* parts yielded are then the selected parts before it.)
C6_PartSelection ==
    (mode = "extract" /\ epc \in {"return", "done", "error"})
        => IF FirstRaising = 0
           THEN /\ epc # "error" /\ eerr = "none"
                /\ yielded = Selected
                /\ (call = "tri" => data = Concat([i \in 1..Len(Selected) |-> Selected[i][3]]))
           ELSE /\ epc = "error"
                /\ yielded = SubSeq(Selected, 1, FirstRaising - 1)

C6_Witness ==
    /\ mode = "extract" /\ epc = "return" /\ call = "tri"
    /\ Len(phys_data.m_hulls) = 2 /\ Len(phys_data.m_meshes) = 2
    /\ phys_data.m_hulls[1].m_nCollisionAttributeIndex = <<1>>
    /\ phys_data.m_hulls[2].m_nCollisionAttributeIndex = <<0>>
    /\ phys_data.m_meshes[1].m_nCollisionAttributeIndex = <<>>
    /\ phys_data.m_meshes[2].m_nCollisionAttributeIndex = <<0>>
    /\ Len(yielded) = 1 /\ yielded[1][1] = "hull" /\ yielded[1][2] = 1
    /\ Len(data) = 72

RECURSIVE SumChunks(_, _)
\* the sum over the first k selected parts of 8 + 36 * t, t being the count
\* to_opt_file writes for the part
SumChunks(sel, k) ==
    IF k = 0 THEN 0 ELSE SumChunks(sel, k - 1) + 8 + 36 * (Len(sel[k][3]) \div 36)

\* C9: whenever extraction completes, the bytes of to_opt_file are an 8-byte
\* count C of the extracted parts, then C chunks in extraction order (hulls by
\* index, then meshes by index), each an 8-byte count t followed by exactly
\* 36 * t bytes (a part without triangles: just its zero count); the length
\* is 8 + the sum over the chunks of 8 + 36 * t.
C9_ChunkedLayout ==
    (mode = "extract" /\ epc = "done")
        => /\ opt_out = ToBytesLE(Len(Selected), 8)
                          \o Concat([i \in 1..Len(Selected) |->
                                ToBytesLE(Len(Selected[i][3]) \div 36, 8) \o Selected[i][3]])
           /\ \A i \in 1..Len(Selected) :
                Len(Selected[i][3]) = 36 * (Len(Selected[i][3]) \div 36)
           /\ Len(opt_out) = 8 + SumChunks(Selected, Len(Selected))

\* the 8-byte fields that start at the offsets offs lie inside b, apart
FieldsApart(b, offs) ==
    /\ \A o \in offs : 0 <= o /\ o + 8 <= Len(b)
    /\ \A o1, o2 \in offs : o1 < o2 => o1 + 8 <= o2

\* the number of bytes of b before offset o that belong to none of the fields
BytesBefore(offs, o) == o - 8 * Cardinality({o2 \in offs : o2 < o})

\* the bytes of b with the 8-byte fields that start at the offsets offs
\* removed: byte i of the result is the byte of b behind the i - 1 bytes and
\* the fields that precede it
WithoutFields(b, offs) ==
    [i \in 1..(Len(b) - 8 * Cardinality(offs)) |->
        b[i + 8 * Cardinality({o \in offs : BytesBefore(offs, o) < i})]]

\* C10: for the same mapping, the bytes of to_triangle_file are the bytes of
\* to_opt_file with the chunk count and every chunk's triangle count removed.
C10_FlatIsChunkedWithoutCounts ==
    (mode = "extract" /\ epc = "done")
        => /\ FieldsApart(opt_out, count_at)
           /\ tri_out = WithoutFields(opt_out, count_at)
           /\ Cardinality(count_at) = 1 + FromBytesLE(SubSeq(opt_out, 1, 8))
           /\ Len(opt_out) = Len(tri_out) + 8 * Cardinality(count_at)

C10_Witness ==
    /\ mode = "extract" /\ epc = "done"
    /\ Len(yielded) = 3
    /\ yielded[1][1] = "hull" /\ yielded[2][1] = "hull" /\ yielded[3][1] = "mesh"
    /\ Len(yielded[1][3]) = 0 /\ Len(yielded[2][3]) = 72 /\ Len(yielded[3][3]) = 36
    /\ count_at = {0, 8, 16, 96}
    /\ Len(tri_out) = 108 /\ Len(opt_out) = 140
    /\ tri_out = yielded[2][3] \o yielded[3][3]

\* C17: an index that names a vertex at or past the end of the vertex
\* buffer makes the extraction of the part fail with MalformedGeometry and
\* no bytes are emitted for the triangle: every part that yields has its
\* indices in range, and neither what a part yields nor what a writer
\* returns holds a record shorter than 36 bytes.
C17_IndexChecked ==
    mode = "extract"
        => /\ \A i \in 1..Len(yielded) :
                 /\ Len(yielded[i][3]) % 36 = 0
                 /\ yielded[i][1] = "mesh"
                       => ValidMesh(phys_data.m_meshes[yielded[i][2] + 1].m_Mesh)
           /\ (tri_out # <<"none">> => Len(tri_out) % 36 = 0)
           /\ (opt_out # <<"none">> => Len(WithoutFields(opt_out, count_at)) % 36 = 0)

\* C18: the abort policy: when the extraction of an attribute-0 part
\* raises (a missing geometry key, a half-edge index past the end of the
\* edge buffer), to_triangle_file and to_opt_file end in that exception,
\* whatever parts were extracted before it: neither method returns bytes
\* (so neither writes a file, which comes after the loop), and a call ends
\* in an exception only for such a part.
C18_AbortPolicy ==
    mode = "extract"
        => /\ FirstRaising # 0 =>
                 /\ tri_out = <<"none">> /\ opt_out = <<"none">>
                 /\ epc \notin {"return", "done"}
           /\ epc = "error" =>
                 /\ FirstRaising # 0
                 /\ eerr = SelectedErr(Selected[FirstRaising])
                 /\ eerr \in {"KeyError", "IndexError"}
                 /\ yielded = SubSeq(Selected, 1, FirstRaising - 1)

C18_Witness ==
    /\ mode = "extract" /\ call = "opt" /\ epc = "error" /\ eerr = "KeyError"
    /\ Len(phys_data.m_hulls) = 1 /\ Len(phys_data.m_meshes) = 2
    /\ Len(yielded) = 2 /\ yielded[1][1] = "hull" /\ yielded[2][1] = "mesh"
    /\ Len(data) = 8 + (8 + 72) + (8 + 36)
    /\ tri_out = <<"none">> /\ opt_out = <<"none">>

====
